---- MODULE Spec2Model ----
(***************************************************************************)
(* The chart data pipeline of chart-test: ChartController (selection,      *)
(* stored records, render data, chart options) and SalesService (the REST  *)
(* query).  Every handler of the controller runs to completion; only the   *)
(* query suspends, and its callback runs later as a handler of its own.    *)
(***************************************************************************)
EXTENDS Integers, Naturals, Sequences, FiniteSets, TLC

VARIABLES
    tempData,   \* the controller's private record array (var tempData)
    model,      \* this.model: chartType, cohort, statistic, orderBy, data
    options,    \* this.options.chart: type, xAxis.axisLabel, yAxis.axisLabel
    pending,    \* queries issued by getData and not yet answered, in issue order
    nQueries,   \* number of SalesResource.query calls made so far
    last,       \* the last event and the controller code it ran
    received,   \* the array the last success callback was called with, as it arrived
    origin,     \* the (stat, cohort) of the query whose response is in tempData
    newest      \* what became of the query issued last: pending, success or failure

vars == <<tempData, model, options, pending, nQueries, last, received, origin,
          newest>>

----------------------------------------------------------------------------
(* Bounds of the model. *)

\* longest array the sort and the reshape are applied to
MaxLen == 3

\* number of queries issued in one behaviour, the initial one included
MaxQueries == 2

\* labels and values of the records the server returns
Labels == {"A", "B"}
Values == {2, 5}

Record == [label : Labels, value : Values]

RecordSeqs == UNION {[1..n -> Record] : n \in 0..MaxLen}

rec(l, v) == [label |-> l, value |-> v]

\* the arrays the server answers with: none, unordered, tied values, tied labels
Responses == { <<>>,
               << rec("B", 2), rec("A", 5) >>,
               << rec("B", 2), rec("A", 2) >>,
               << rec("B", 5), rec("A", 5), rec("A", 2) >> }

\* value of a property that was never assigned
undefined == "undefined"

\* origin while tempData is the constructor's empty array
NoQuery == [stat |-> undefined, cohort |-> undefined]

----------------------------------------------------------------------------
(* The static catalog this.settings. *)

\* the catalog with the 'All Records' and 'Count' entries moved to the end
\* of their lists
settings_emptyLast == <<
    [name |-> "Chart Type", prop |-> "chartType", onChange |-> "updateChart",
     values |-> << [name |-> "Bar",  value |-> "discreteBarChart"],
                   [name |-> "Line", value |-> "stackedAreaChart"],
                   [name |-> "Pie",  value |-> "pieChart"] >>],
    [name |-> "Cohort", prop |-> "cohort", onChange |-> "updateData",
     values |-> << [name |-> "Product",     value |-> "product"],
                   [name |-> "Category",    value |-> "category"],
                   [name |-> "Channel",     value |-> "channel"],
                   [name |-> "All Records", value |-> ""] >>],
    [name |-> "Statistic", prop |-> "statistic", onChange |-> "updateData",
     values |-> << [name |-> "Sum",   value |-> "sum"],
                   [name |-> "Count", value |-> ""] >>],
    [name |-> "Order By", prop |-> "orderBy", onChange |-> "sortData",
     values |-> << [name |-> "Ascending",           value |-> "A to Z"],
                   [name |-> "Descending",          value |-> "Z to A"],
                   [name |-> "Smallest to Largest", value |-> "min to max"],
                   [name |-> "Largest to Smallest", value |-> "max to min"] >>] >>

settings == <<
    [name |-> "Chart Type", prop |-> "chartType", onChange |-> "updateChart",
     values |-> << [name |-> "Bar",  value |-> "discreteBarChart"],
                   [name |-> "Line", value |-> "stackedAreaChart"],
                   [name |-> "Pie",  value |-> "pieChart"] >>],
    [name |-> "Cohort", prop |-> "cohort", onChange |-> "updateData",
     values |-> << [name |-> "All Records", value |-> ""],
                   [name |-> "Product",     value |-> "product"],
                   [name |-> "Category",    value |-> "category"],
                   [name |-> "Channel",     value |-> "channel"] >>],
    [name |-> "Statistic", prop |-> "statistic", onChange |-> "updateData",
     values |-> << [name |-> "Count", value |-> ""],
                   [name |-> "Sum",   value |-> "sum"] >>],
    [name |-> "Order By", prop |-> "orderBy", onChange |-> "sortData",
     values |-> << [name |-> "Ascending",           value |-> "A to Z"],
                   [name |-> "Descending",          value |-> "Z to A"],
                   [name |-> "Smallest to Largest", value |-> "min to max"],
                   [name |-> "Largest to Smallest", value |-> "max to min"] >>] >>

\* the values a drop-down list offers for the property prop
ValuesOf(prop) ==
    LET s == CHOOSE e \in {settings[i] : i \in 1..Len(settings)} : e.prop = prop
    IN  {s.values[i].value : i \in 1..Len(s.values)}

----------------------------------------------------------------------------
(* $filter('filter')(array, {key: text}): the elements whose property      *)
(* contains text as a substring.                                           *)

\* the characters of the strings the filter is applied to
Chars(s) ==
    CASE s = ""          -> <<>>
      [] s = "product"   -> <<"p","r","o","d","u","c","t">>
      [] s = "category"  -> <<"c","a","t","e","g","o","r","y">>
      [] s = "channel"   -> <<"c","h","a","n","n","e","l">>
      [] s = "sum"       -> <<"s","u","m">>
      [] s = "chartType" -> <<"c","h","a","r","t","t","y","p","e">>
      [] s = "cohort"    -> <<"c","o","h","o","r","t">>
      [] s = "statistic" -> <<"s","t","a","t","i","s","t","i","c">>
      [] s = "orderBy"   -> <<"o","r","d","e","r","b","y">>

\* actual.indexOf(expected) !== -1, on the lower-cased strings
Contains(actual, expected) ==
    LET a == Chars(actual)
        e == Chars(expected)
    IN  \E k \in 0..(Len(a) - Len(e)) : SubSeq(a, k + 1, k + Len(e)) = e

filterByProp(array, text) ==
    SelectSeq(array, LAMBDA el : Contains(el.prop, text))

filterByValue(array, text) ==
    SelectSeq(array, LAMBDA el : Contains(el.value, text))

----------------------------------------------------------------------------
(* tempData.sort(comparator)                                               *)

\* collation order of the labels
Collate(s) == CASE s = "A" -> 1 [] s = "B" -> 2

\* a.localeCompare(b): negative, zero or positive
localeCompare(a, b) ==
    IF Collate(a) < Collate(b) THEN -1 ELSE IF Collate(a) > Collate(b) THEN 1 ELSE 0

\* the 'max to min' case a copy of the 'min to max' case
comparator_copied(orderBy, a, b) ==
    CASE orderBy = "A to Z"     -> localeCompare(a.label, b.label)
      [] orderBy = "Z to A"     -> localeCompare(b.label, a.label)
      [] orderBy = "min to max" -> a.value - b.value
      [] orderBy = "max to min" -> a.value - b.value
      [] OTHER                  -> 0

\* a comparator that answers "less or not" and so never returns 0
comparator_noTie(orderBy, a, b) ==
    CASE orderBy = "A to Z"     -> IF localeCompare(a.label, b.label) < 0 THEN -1 ELSE 1
      [] orderBy = "Z to A"     -> IF localeCompare(b.label, a.label) < 0 THEN -1 ELSE 1
      [] orderBy = "min to max" -> IF a.value < b.value THEN -1 ELSE 1
      [] orderBy = "max to min" -> IF b.value < a.value THEN -1 ELSE 1
      [] OTHER                  -> 0

\* the comparator of sortData; a switch that matches no case returns
\* undefined, which sort takes as 0
comparator(orderBy, a, b) ==
    CASE orderBy = "A to Z"     -> localeCompare(a.label, b.label)
      [] orderBy = "Z to A"     -> localeCompare(b.label, a.label)
      [] orderBy = "min to max" -> a.value - b.value
      [] orderBy = "max to min" -> b.value - a.value
      [] OTHER                  -> 0

\* x placed into the ordered sequence s behind every element that does not
\* compare greater than it
RECURSIVE insert(_, _, _)
insert(orderBy, s, x) ==
    IF s = <<>> THEN <<x>>
    ELSE IF comparator(orderBy, s[Len(s)], x) > 0
         THEN Append(insert(orderBy, SubSeq(s, 1, Len(s) - 1), x), s[Len(s)])
         ELSE Append(s, x)

\* Array.prototype.sort: the elements in comparator order, elements that
\* compare equal in their order of before
RECURSIVE sort(_, _)
sort(orderBy, s) ==
    IF s = <<>> THEN <<>>
    ELSE insert(orderBy, sort(orderBy, SubSeq(s, 1, Len(s) - 1)), s[Len(s)])

----------------------------------------------------------------------------
(* The controller's methods, as functions of the state they read.          *)

\* the Bar case misspelt, so that Bar falls through to the default
formatData_noBarCase(m, td) ==
    CASE m.chartType = "stackedAreaChart" ->
            [m EXCEPT !.data =
                [i \in 1..Len(td) |->
                    [key |-> td[i].label,
                     values |-> << [label |-> 0, value |-> 0],
                                   [label |-> 1, value |-> td[i].value] >>]]]
      [] OTHER ->
            [m EXCEPT !.data = td]

\* the Line case with the record's value in the first point
formatData_lineSwapped(m, td) ==
    CASE m.chartType = "discreteBarChart" ->
            [m EXCEPT !.data = << [key |-> m.cohort, values |-> td] >>]
      [] m.chartType = "stackedAreaChart" ->
            [m EXCEPT !.data =
                [i \in 1..Len(td) |->
                    [key |-> td[i].label,
                     values |-> << [label |-> 0, value |-> td[i].value],
                                   [label |-> 1, value |-> 0] >>]]]
      [] OTHER ->
            [m EXCEPT !.data = td]

\* the default case a copy of the Bar case
formatData_defaultAsBar(m, td) ==
    CASE m.chartType = "stackedAreaChart" ->
            [m EXCEPT !.data =
                [i \in 1..Len(td) |->
                    [key |-> td[i].label,
                     values |-> << [label |-> 0, value |-> 0],
                                   [label |-> 1, value |-> td[i].value] >>]]]
      [] OTHER ->
            [m EXCEPT !.data = << [key |-> m.cohort, values |-> td] >>]

\* the Line case as a loop that runs one index too far and pushes a series
\* for the element behind the last
formatData_offByOne(m, td) ==
    CASE m.chartType = "discreteBarChart" ->
            [m EXCEPT !.data = << [key |-> m.cohort, values |-> td] >>]
      [] m.chartType = "stackedAreaChart" ->
            [m EXCEPT !.data =
                [i \in 1..(Len(td) + 1) |->
                    IF i <= Len(td)
                    THEN [key |-> td[i].label,
                          values |-> << [label |-> 0, value |-> 0],
                                        [label |-> 1, value |-> td[i].value] >>]
                    ELSE [key |-> undefined,
                          values |-> << [label |-> 0, value |-> 0],
                                        [label |-> 1, value |-> 0] >>]]]
      [] OTHER ->
            [m EXCEPT !.data = td]

\* formatData: the value assigned to this.model.data.  The Bar series and
\* the Pie data hold tempData itself, which no handler changes without
\* calling formatData afterwards.
formatData(m, td) ==
    CASE m.chartType = "discreteBarChart" ->
            [m EXCEPT !.data = << [key |-> m.cohort, values |-> td] >>]
      [] m.chartType = "stackedAreaChart" ->
            [m EXCEPT !.data =
                [i \in 1..Len(td) |->
                    [key |-> td[i].label,
                     values |-> << [label |-> 0, value |-> 0],
                                   [label |-> 1, value |-> td[i].value] >>]]]
      [] OTHER ->
            [m EXCEPT !.data = td]

\* sortData without the sort
sortData_noSort(m, td) ==
    [tempData |-> td, model |-> formatData(m, td)]

\* sortData: tempData sorted in place, then formatData
sortData(m, td) ==
    LET sorted == sort(m.orderBy, td)
    IN  [tempData |-> sorted, model |-> formatData(m, sorted)]

\* updateChart without its call of formatData
updateChart_noFormat(m, o, td) ==
    LET cohorts    == filterByProp(settings, "cohort")[1].values
        statistics == filterByProp(settings, "statistic")[1].values
    IN  [model   |-> m,
         options |-> [o EXCEPT
                        !.type = m.chartType,
                        !.xAxisLabel = filterByValue(cohorts, m.cohort)[1].name,
                        !.yAxisLabel = filterByValue(statistics, m.statistic)[1].name]]

\* updateChart: formatData, then the chart type and the axis labels
updateChart(m, o, td) ==
    LET cohorts    == filterByProp(settings, "cohort")[1].values
        statistics == filterByProp(settings, "statistic")[1].values
    IN  [model   |-> formatData(m, td),
         options |-> [o EXCEPT
                        !.type = m.chartType,
                        !.xAxisLabel = filterByValue(cohorts, m.cohort)[1].name,
                        !.yAxisLabel = filterByValue(statistics, m.statistic)[1].name]]

\* the two parameters of the query exchanged
getData_swapped(stat, cohort) == [stat |-> cohort, cohort |-> stat]

\* SalesService.getData: the query it sends; only a success callback is
\* handed to SalesResource.query
getData(stat, cohort) == [stat |-> stat, cohort |-> cohort]

\* the callback adding the answer to the stored records (tempData.concat)
callback_merged(m, o, data) ==
    LET s == sortData(m, tempData \o data)
        u == updateChart(s.model, o, s.tempData)
    IN  [tempData |-> s.tempData, model |-> u.model, options |-> u.options]

\* the success callback of updateData
callback(m, o, data) ==
    LET s == sortData(m, data)
        u == updateChart(s.model, o, s.tempData)
    IN  [tempData |-> s.tempData, model |-> u.model, options |-> u.options]

----------------------------------------------------------------------------
(* Initial state: the constructor has run, its updateData() included.      *)

Init ==
    /\ tempData = <<>>
    /\ model = [chartType |-> "discreteBarChart", cohort |-> "", statistic |-> "",
                orderBy |-> "A to Z", data |-> <<>>]
    /\ options = [type |-> "discreteBarChart", xAxisLabel |-> undefined,
                  yAxisLabel |-> undefined]
    /\ pending = << getData("", "") >>
    /\ nQueries = 1
    /\ last = [event |-> "construct", handler |-> "updateData"]
    /\ received = <<>>
    /\ origin = NoQuery
    /\ newest = "pending"

----------------------------------------------------------------------------
(* The user picks another value in a drop-down list: the property is set   *)
(* and the list's onChange handler runs.                                   *)

\* updateData: one query for the current statistic and cohort
updateData(m) ==
    /\ nQueries < MaxQueries
    /\ model' = m
    /\ pending' = Append(pending, getData(m.statistic, m.cohort))
    /\ nQueries' = nQueries + 1
    /\ last' = [event |-> "change", handler |-> "updateData"]
    /\ newest' = "pending"
    /\ UNCHANGED <<tempData, options, received, origin>>

ChangeCohort(v) ==
    /\ v # model.cohort
    /\ updateData([model EXCEPT !.cohort = v])

ChangeStatistic(v) ==
    /\ v # model.statistic
    /\ updateData([model EXCEPT !.statistic = v])

\* the Order By list wired to updateData instead of sortData
ChangeOrderBy_refetch(v) ==
    /\ v # model.orderBy
    /\ updateData([model EXCEPT !.orderBy = v])

ChangeOrderBy(v) ==
    /\ v # model.orderBy
    /\ LET s == sortData([model EXCEPT !.orderBy = v], tempData)
       IN  /\ tempData' = s.tempData
           /\ model' = s.model
    /\ last' = [event |-> "change", handler |-> "sortData"]
    /\ UNCHANGED <<options, pending, nQueries, received, origin, newest>>

ChangeChartType(v) ==
    /\ v # model.chartType
    /\ LET u == updateChart([model EXCEPT !.chartType = v], options, tempData)
       IN  /\ model' = u.model
           /\ options' = u.options
    /\ last' = [event |-> "change", handler |-> "updateChart"]
    /\ UNCHANGED <<tempData, pending, nQueries, received, origin, newest>>

----------------------------------------------------------------------------
(* The answers of the server, in any order.                                *)

Remove(s, i) == SubSeq(s, 1, i - 1) \o SubSeq(s, i + 1, Len(s))

\* the i-th pending query succeeds with the array data
QuerySuccess(i, data) ==
    /\ i \in 1..Len(pending)
    /\ LET c == callback(model, options, data)
       IN  /\ tempData' = c.tempData
           /\ model' = c.model
           /\ options' = c.options
    /\ pending' = Remove(pending, i)
    /\ received' = data
    /\ origin' = pending[i]
    /\ last' = [event |-> "success", handler |-> "callback"]
    /\ newest' = IF newest = "pending" /\ i = Len(pending) THEN "success" ELSE newest
    /\ UNCHANGED nQueries

\* a failed query answered like an empty result
QueryFailure_wipe(i) ==
    /\ i \in 1..Len(pending)
    /\ LET c == callback(model, options, <<>>)
       IN  /\ tempData' = c.tempData
           /\ model' = c.model
           /\ options' = c.options
    /\ pending' = Remove(pending, i)
    /\ last' = [event |-> "failure", handler |-> undefined]
    /\ newest' = IF newest = "pending" /\ i = Len(pending) THEN "failure" ELSE newest
    /\ UNCHANGED <<nQueries, received, origin>>

\* the i-th pending query fails: SalesResource.query was given no error
\* callback and updateData drops what getData returns, so no code runs
QueryFailure(i) ==
    /\ i \in 1..Len(pending)
    /\ pending' = Remove(pending, i)
    /\ last' = [event |-> "failure", handler |-> undefined]
    /\ newest' = IF newest = "pending" /\ i = Len(pending) THEN "failure" ELSE newest
    /\ UNCHANGED <<tempData, model, options, nQueries, received, origin>>

Next ==
    \/ \E v \in ValuesOf("cohort") : ChangeCohort(v)
    \/ \E v \in ValuesOf("statistic") : ChangeStatistic(v)
    \/ \E v \in ValuesOf("orderBy") : ChangeOrderBy(v)
    \/ \E v \in ValuesOf("chartType") : ChangeChartType(v)
    \/ \E i \in 1..MaxQueries, data \in Responses : QuerySuccess(i, data)
    \/ \E i \in 1..MaxQueries : QueryFailure(i)

Spec == Init /\ [][Next]_vars

----------------------------------------------------------------------------
(* The success callback statement by statement, on every array up to       *)
(* MaxLen and under every selection: tempData = data has run in the        *)
(* initial state, then self.sortData(), then self.updateChart().           *)

\* chart types that the drop-down list does not offer
OtherChartTypes == {"lineChart"}

FnInit ==
    /\ received \in RecordSeqs
    /\ tempData = received
    /\ model \in [chartType : ValuesOf("chartType") \cup OtherChartTypes,
                  cohort : ValuesOf("cohort"),
                  statistic : ValuesOf("statistic"), orderBy : ValuesOf("orderBy"),
                  data : {<<>>}]
    /\ options = [type |-> "discreteBarChart", xAxisLabel |-> undefined,
                  yAxisLabel |-> undefined]
    /\ pending = <<>>
    /\ nQueries = 1
    /\ last = [event |-> "success", handler |-> "tempData = data"]
    /\ origin = getData(model.statistic, model.cohort)
    /\ newest = "success"

CallbackSortData ==
    /\ last.handler = "tempData = data"
    /\ LET s == sortData(model, tempData)
       IN  /\ tempData' = s.tempData
           /\ model' = s.model
    /\ last' = [last EXCEPT !.handler = "sortData"]
    /\ UNCHANGED <<options, pending, nQueries, received, origin, newest>>

CallbackUpdateChart ==
    /\ last.handler = "sortData"
    /\ LET u == updateChart(model, options, tempData)
       IN  /\ model' = u.model
           /\ options' = u.options
    /\ last' = [last EXCEPT !.handler = "updateChart"]
    /\ UNCHANGED <<tempData, pending, nQueries, received, origin, newest>>

FnNext == CallbackSortData \/ CallbackUpdateChart

FnSpec == FnInit /\ [][FnNext]_vars

----------------------------------------------------------------------------
(* Properties of the pipeline under Spec.                                  *)

\* the query parameters of the current selection
Selected == [stat |-> model.statistic, cohort |-> model.cohort]

\* C1: a successful answer to a query whose (stat, cohort) is not the
\* current selection's does not replace the stored records.
StaleResultNeverApplied ==
    [][\A i \in 1..Len(pending) :
          (/\ last'.event = "success"
           /\ pending' = Remove(pending, i)
           /\ pending[i] # Selected)
          => (tempData' = tempData /\ origin' = origin /\ received' = received)]_vars

\* C2: a change of cohort or statistic issues exactly one query, with the
\* statistic and the cohort of the selection after the change.
OneQueryPerDataChange ==
    [][(model'.cohort # model.cohort \/ model'.statistic # model.statistic)
          => /\ nQueries' = nQueries + 1
             /\ pending' = Append(pending, [stat   |-> model'.statistic,
                                            cohort |-> model'.cohort])]_vars

\* C2 witness: the statistic was changed to 'sum' while the constructor's
\* query was pending, and the second query carries it.
DataChangeQueried ==
    /\ last = [event |-> "change", handler |-> "updateData"]
    /\ model.statistic = "sum"
    /\ nQueries = 2
    /\ pending = << [stat |-> "", cohort |-> ""], [stat |-> "sum", cohort |-> ""] >>

\* C3: a change of orderBy issues no query: the number of queries made and
\* the queries in flight stay as they were.
OrderByIssuesNoQuery ==
    [][model'.orderBy # model.orderBy
          => (nQueries' = nQueries /\ pending' = pending)]_vars

\* C3 witness: orderBy was changed while records were stored and a query
\* was in flight.
OrderByChangedWhileLoading ==
    /\ last = [event |-> "change", handler |-> "sortData"]
    /\ model.orderBy = "max to min"
    /\ Len(tempData) > 1
    /\ pending # <<>>

\* C4: a change of chartType issues no query and leaves the stored records
\* as they were; model.data is then their reshape under the new chartType.
ChartTypeReshapesOnly ==
    [][model'.chartType # model.chartType
          => /\ nQueries' = nQueries
             /\ pending' = pending
             /\ tempData' = tempData
             /\ model'.data = formatData(model', tempData).data]_vars

\* C4 witness: chartType was changed to Line while records were stored and
\* a query was in flight.
ChartTypeChangedWhileLoading ==
    /\ last = [event |-> "change", handler |-> "updateChart"]
    /\ model.chartType = "stackedAreaChart"
    /\ Len(tempData) > 1
    /\ Len(model.data) = Len(tempData)
    /\ pending # <<>>

\* C5: in every reachable state model.data is the reshape of the current
\* records under the current chartType and cohort.
RenderSpecIsCurrent == model.data = formatData(model, tempData).data

\* C6: a failed query changes neither the stored records nor model.data
\* (nor the rest of the model) nor the chart options.
FailureChangesNothing ==
    [][last'.event = "failure"
          => (tempData' = tempData /\ model' = model /\ options' = options)]_vars

\* C6 witness: a query has failed while records of an earlier answer were
\* stored and another selection was current.
FailureAfterData ==
    /\ last.event = "failure"
    /\ tempData # <<>>
    /\ origin # NoQuery
    /\ origin # Selected

\* C7: a failed query is reported: it runs some code of the controller.
FailureIsReported == last.event = "failure" => last.handler # undefined

----------------------------------------------------------------------------
(* Properties of sort and reshape under FnSpec.                            *)

Count(s, r) == Cardinality({i \in 1..Len(s) : s[i] = r})

IsPermutation(s, t) == Len(s) = Len(t) /\ \A r \in Record : Count(s, r) = Count(t, r)

\* the order a value of orderBy asks for
InOrder(orderBy, a, b) ==
    CASE orderBy = "A to Z"     -> Collate(a.label) <= Collate(b.label)
      [] orderBy = "Z to A"     -> Collate(a.label) >= Collate(b.label)
      [] orderBy = "min to max" -> a.value <= b.value
      [] orderBy = "max to min" -> a.value >= b.value

Ordered(orderBy, s) ==
    \A i, j \in 1..Len(s) : i < j => InOrder(orderBy, s[i], s[j])

\* the records of s that tie with r under orderBy, in their order in s
Ties(orderBy, s, r) ==
    IF orderBy \in {"A to Z", "Z to A"}
    THEN SelectSeq(s, LAMBDA e : e.label = r.label)
    ELSE SelectSeq(s, LAMBDA e : e.value = r.value)

Sorted == last.handler \in {"sortData", "updateChart"}

\* C8: the sorted array is a permutation of the array that arrived and is
\* in the order orderBy asks for.
SortOrdersPermutation ==
    Sorted => (IsPermutation(received, tempData) /\ Ordered(model.orderBy, tempData))

\* C8 witness: [B:2, A:5] sorted 'A to Z' is [A:5, B:2].
SortedAtoZ ==
    /\ last.handler = "sortData"
    /\ model.orderBy = "A to Z"
    /\ received = << rec("B", 2), rec("A", 5) >>
    /\ tempData = << rec("A", 5), rec("B", 2) >>

\* C9: records that compare equal under orderBy are in the sorted array in
\* the order they had in the array that arrived.
SortIsStable ==
    Sorted => \A r \in Record :
                 Ties(model.orderBy, tempData, r) = Ties(model.orderBy, received, r)

\* C9 witness: [B:2, B:5, A:5] sorted 'max to min' moves B:2 behind and
\* keeps B:5 before A:5.
TiesKeptMaxToMin ==
    /\ last.handler = "sortData"
    /\ model.orderBy = "max to min"
    /\ received = << rec("B", 2), rec("B", 5), rec("A", 5) >>
    /\ tempData = << rec("B", 5), rec("A", 5), rec("B", 2) >>

\* C10: under 'discreteBarChart' model.data is one series, its key the
\* current cohort and its values the records, in their order.
BarIsOneSeries ==
    (Sorted /\ model.chartType = "discreteBarChart")
        => /\ Len(model.data) = 1
           /\ model.data[1].key = model.cohort
           /\ model.data[1].values = tempData

\* C10 witness: [A:5, B:2] under cohort 'product'.
BarOfProduct ==
    /\ Sorted
    /\ model.chartType = "discreteBarChart"
    /\ model.cohort = "product"
    /\ tempData = << rec("A", 5), rec("B", 2) >>
    /\ model.data = << [key |-> "product",
                        values |-> << rec("A", 5), rec("B", 2) >>] >>

\* C11: under 'stackedAreaChart' model.data has one series per record, in
\* the order of the records; the i-th series has the i-th record's label as
\* key and the two points {0, 0} and {1, the i-th record's value}.
LineIsSeriesPerRecord ==
    (Sorted /\ model.chartType = "stackedAreaChart")
        => /\ Len(model.data) = Len(tempData)
           /\ \A i \in 1..Len(tempData) :
                 /\ model.data[i].key = tempData[i].label
                 /\ Len(model.data[i].values) = 2
                 /\ model.data[i].values[1] = [label |-> 0, value |-> 0]
                 /\ model.data[i].values[2] = [label |-> 1, value |-> tempData[i].value]

\* C11 witness: [A:5, B:2] becomes the series A with (0,0),(1,5) and the
\* series B with (0,0),(1,2).
LineOfTwoRecords ==
    /\ Sorted
    /\ model.chartType = "stackedAreaChart"
    /\ tempData = << rec("A", 5), rec("B", 2) >>
    /\ model.data = << [key |-> "A", values |-> << [label |-> 0, value |-> 0],
                                                   [label |-> 1, value |-> 5] >>],
                       [key |-> "B", values |-> << [label |-> 0, value |-> 0],
                                                   [label |-> 1, value |-> 2] >>] >>

\* C12: under 'pieChart' and under every chartType outside the catalog
\* model.data is the record array, unchanged.
PieAndUnknownPassThrough ==
    (Sorted /\ model.chartType \notin {"discreteBarChart", "stackedAreaChart"})
        => model.data = tempData

\* C12 witness: a chartType outside the catalog with three records.
UnknownChartTypePassedThrough ==
    /\ Sorted
    /\ model.chartType \notin ValuesOf("chartType")
    /\ Len(tempData) = 3
    /\ model.data = tempData

\* the data points of a value of model.data under chartType
DataPoints(chartType, data) ==
    CASE chartType = "discreteBarChart" ->
            UNION {{<<i, j>> : j \in 1..Len(data[i].values)} : i \in 1..Len(data)}
      [] chartType = "stackedAreaChart" ->
            UNION {{<<i, j>> : j \in 1..Len(data[i].values)} : i \in 1..Len(data)}
      [] OTHER ->
            {<<i, 1>> : i \in 1..Len(data)}

\* C13: an empty array is sorted and reshaped into a model.data with no
\* data point, under every chartType and every orderBy: Bar is one series
\* with no values, Line no series, Pie the empty array.
EmptyGivesNoPoints ==
    (Sorted /\ received = <<>>)
        => /\ tempData = <<>>
           /\ DataPoints(model.chartType, model.data) = {}
           /\ model.chartType = "discreteBarChart"
                 => model.data = << [key |-> model.cohort, values |-> <<>>] >>
           /\ model.chartType # "discreteBarChart" => model.data = <<>>

\* C13 witness: the empty array under Line and 'Z to A', after both calls.
EmptyLineChart ==
    /\ last.handler = "updateChart"
    /\ received = <<>>
    /\ model.chartType = "stackedAreaChart"
    /\ model.orderBy = "Z to A"
    /\ model.data = <<>>

\* the display names of the cohort and statistic values
CohortName(c) ==
    CASE c = ""         -> "All Records"
      [] c = "product"  -> "Product"
      [] c = "category" -> "Category"
      [] c = "channel"  -> "Channel"

StatisticName(st) ==
    CASE st = ""    -> "Count"
      [] st = "sum" -> "Sum"

\* C14: after updateChart the x-axis label is the display name of the
\* current cohort and the y-axis label that of the current statistic, for
\* every cohort and statistic of the catalog, the empty strings included.
AxisLabelsAreDisplayNames ==
    last.handler = "updateChart"
        => /\ options.xAxisLabel = CohortName(model.cohort)
           /\ options.yAxisLabel = StatisticName(model.statistic)

\* C14 witness: cohort '' and statistic '' give 'All Records' and 'Count'.
EmptyValuesLabelled ==
    /\ last.handler = "updateChart"
    /\ model.cohort = ""
    /\ model.statistic = ""
    /\ options.xAxisLabel = "All Records"
    /\ options.yAxisLabel = "Count"

----------------------------------------------------------------------------
(* Properties of loading and of the stored records under Spec.             *)

\* C15: once the query of the last cohort or statistic change (or of the
\* constructor) has succeeded and no query is in flight any more, the
\* records are those returned for the current (stat, cohort) and
\* model.data is their reshape.
IdleAfterSuccessIsCurrent ==
    (pending = <<>> /\ newest = "success")
        => /\ origin = Selected
           /\ model.data = formatData(model, tempData).data

\* C16: right after a successful answer the stored records are a
\* permutation of exactly the array that arrived, whichever query it
\* answers and whatever was stored before.
AnswerReplacesRecords ==
    last.event = "success"
        => /\ IsPermutation(received, tempData)
           /\ \A i \in 1..Len(tempData) :
                 \E j \in 1..Len(received) : tempData[i] = received[j]

\* C16 witness: the older of two queries was answered last, after the newer
\* one had succeeded, and its three records are the stored ones.
OlderAnswerStored ==
    /\ last.event = "success"
    /\ pending = <<>>
    /\ newest = "success"
    /\ origin # Selected
    /\ received = << rec("B", 5), rec("A", 5), rec("A", 2) >>
    /\ Len(tempData) = 3

\* C17: between handlers the stored records are in the order the current
\* orderBy asks for.
RecordsInCurrentOrder == Ordered(model.orderBy, tempData)

\* C17 witness: three records stored 'min to max', then a cohort change
\* and a chartType change with the query still in flight.
OrderKeptWhileLoading ==
    /\ last = [event |-> "change", handler |-> "updateChart"]
    /\ model.orderBy = "min to max"
    /\ Len(tempData) = 3
    /\ tempData[1] = rec("A", 2)
    /\ origin # Selected
    /\ pending # <<>>

\* C18: once an answer is stored, the Bar series key and the axis labels
\* name the (stat, cohort) of the query that the stored records answer.
LabelsNameOrigin ==
    (origin # NoQuery /\ options.xAxisLabel # undefined)
        => /\ options.xAxisLabel = CohortName(origin.cohort)
           /\ options.yAxisLabel = StatisticName(origin.stat)
           /\ model.chartType = "discreteBarChart"
                 => (Len(model.data) = 1 /\ model.data[1].key = origin.cohort)

====
